---- MODULE Spec2Model ----
(***************************************************************************)
(* Reminder-gating engine of the Moffett Clocker Helper                    *)
(* (src/manual_clocker.py): the monitor loop's tick, the per-day and       *)
(* per-month counter files, the last-prompt epoch files, the settings      *)
(* cache, the clock-in / clock-out action and the settings window's        *)
(* "Test SMS" button.                                                      *)
(*                                                                         *)
(* Time is the wall clock in seconds (time.time()); the local date, hour,  *)
(* weekday and month are computed from it.  A file is modelled by its      *)
(* content; a file that does not exist (or cannot be read, which the       *)
(* loaders treat alike) has exists = FALSE, an epoch file NoFile.  During  *)
(* a step the application-data directory is writable or it is not: a       *)
(* write that fails is swallowed by the savers and leaves the file as it   *)
(* was.                                                                    *)
(***************************************************************************)
EXTENDS Integers, Sequences, FiniteSets, TLC

VARIABLES
    settingsFile, \* SETTINGS_FILE
    win,          \* the settings window and the threads started for it
    inc,          \* inc_count in progress on the monitor and the window thread
    sync,         \* _settings_lock and the threads that use it
    cfg,          \* _settings_cache: the settings snapshot
    status,       \* _current_status
    streak,       \* _active_streak_seconds
    now,          \* wall clock, seconds since the epoch
    counts,       \* COUNTS_FILE       {date, on, off, sms}
    month,        \* MONTH_COUNTS_FILE {month, sms}
    last_on,      \* LAST_ON_PROMPT_FILE
    last_off,     \* LAST_OFF_PROMPT_FILE
    stateFile,    \* STATE_FILE
    mt,           \* monitor thread: its place in monitor_loop and its locals
    ev,           \* history: what the last step did
    fired,        \* history: reminders the monitor dispatched on fired.day
    overtaken,    \* history: set_status ran during the pass in progress
    nonint        \* the numeric settings whose cached value int() rejects

vars == <<settingsFile, win, inc, sync, cfg, status, streak, now, counts, month, last_on, last_off,
          stateFile, mt, ev, fired, overtaken,
          nonint>>

----------------------------------------------------------------------------
(* Bounds of the model *)

\* monitor ticks are explored for the first MaxSegTicks polls of an hour
MaxSegTicks == 2
\* the clock starts on day StartDay of the epoch, at midnight
StartDay == 8
\* the clock is moved on to the first MaxJumps hours of JumpHours
MaxJumps == 4
\* length of a calendar month, in days
DaysPerMonth == 2
\* ticks are explored while the streak stays within MaxStreak seconds
MaxStreak == 60
\* the history counters of dispatched reminders saturate at FiredCap
FiredCap == 3

----------------------------------------------------------------------------
(* Constants of the program *)

POLL_INTERVAL_SEC == 10

\* content of an epoch file that does not exist
NoFile == -1

Kinds == {"on", "off", "sms"}

DayNames == <<"mon", "tue", "wed", "thu", "fri", "sat", "sun">>

WorkDays == [mon |-> TRUE, tue |-> TRUE, wed |-> TRUE, thu |-> TRUE,
             fri |-> TRUE, sat |-> FALSE, sun |-> FALSE]

\* phone numbers are sequences of characters
Digits == {"0", "1", "2", "3", "4", "5", "6", "7", "8", "9"}

PhoneOk   == <<"+", "3", "5", "8", "4", "0", "1", "2", "3">>
PhoneBad  == <<"1", "2", "3", "4", "5">>
PhoneNone == << >>
PhoneBlank == <<" ">>

DEFAULT_SETTINGS ==
    [enable_clock_in_reminder       |-> TRUE,
     clock_in_cutoff_hour           |-> 15,
     active_threshold_off_min       |-> 30,
     off_prompt_cooldown_min        |-> 210,
     max_clock_in_per_day           |-> 3,
     enable_clock_out_idle_reminder |-> TRUE,
     on_idle_threshold_min          |-> 45,
     on_idle_prompt_cooldown_min    |-> 210,
     on_idle_after_hour             |-> 0,
     max_clock_out_per_day          |-> 3,
     enable_sms_clock_out_reminder  |-> FALSE,
     sms_phone_e164                 |-> PhoneNone,
     sms_only_after_hour            |-> 0,
     sms_idle_threshold_min         |-> 60,
     sms_max_per_day                |-> 1,
     sms_window_start_hour          |-> 12,
     sms_window_end_hour            |-> 22,
     sms_max_per_month              |-> 10,
     notify_days                    |-> WorkDays,
     active_idle_cutoff_sec         |-> 300]

----------------------------------------------------------------------------
(* Clock *)

Max(a, b) == IF a >= b THEN a ELSE b
Min(a, b) == IF a <= b THEN a ELSE b

\* _today(): the local date, as a day number
_today(t) == t \div 86400

\* _this_month(): the local calendar month, as a month number
_this_month(t) == _today(t) \div DaysPerMonth

\* datetime.now().hour
Hour(t) == (t \div 3600) % 24

\* _weekday_key(): day 0 of the epoch is a Thursday
_weekday_key(t) == DayNames[((_today(t) + 3) % 7) + 1]

\* variant: the weekday mask is never consulted
is_notification_day_always(c, t) == TRUE

is_notification_day_enabled(c, t) ==
    LET days == c.notify_days
        k    == _weekday_key(t)
    IN  IF k \in DOMAIN days THEN days[k] ELSE TRUE

is_in_hour_window_nowrap(start_hour, end_hour, now_hour) ==
    start_hour <= now_hour /\ now_hour < end_hour

is_in_hour_window(start_hour, end_hour, now_hour) ==
    LET s == Max(0, Min(23, start_hour))
        e == Max(1, Min(24, end_hour))
        h == Max(0, Min(23, now_hour))
    IN  IF s = e THEN TRUE
        ELSE IF s < e THEN s <= h /\ h < e
        ELSE h >= s \/ h < e

is_before_cutoff_unclamped(cutoff_hour, hour) == hour < cutoff_hour

is_before_cutoff_local(cutoff_hour, hour) ==
    IF cutoff_hour >= 24 THEN TRUE
    ELSE hour < (IF cutoff_hour < 1 THEN 1 ELSE cutoff_hour)

is_after_cutoff_local(after_hour, hour) ==
    hour >= Max(0, Min(23, after_hour))

----------------------------------------------------------------------------
(* Counter store *)

NoCounts == [exists |-> FALSE, date |-> 0, on |-> 0, off |-> 0, sms |-> 0]
NoMonth  == [exists |-> FALSE, month |-> 0, sms |-> 0]

\* variant: a record of an earlier date keeps its numbers
_load_counts_stale(f, today) ==
    IF f.exists
    THEN [date |-> today, on |-> f.on, off |-> f.off, sms |-> f.sms]
    ELSE [date |-> today, on |-> 0, off |-> 0, sms |-> 0]

\* the record _load_counts returns for the file content f on the date today
_load_counts(f, today) ==
    IF f.exists /\ f.date = today
    THEN [date |-> today, on |-> f.on, off |-> f.off, sms |-> f.sms]
    ELSE [date |-> today, on |-> 0, off |-> 0, sms |-> 0]

\* the file content after _save_counts(data); a failed write is swallowed
_save_counts(f, data, ok) ==
    IF ok THEN [exists |-> TRUE, date |-> data.date, on |-> data.on,
                off |-> data.off, sms |-> data.sms]
    ELSE f

get_count(f, kind, today) == _load_counts(f, today)[kind]

inc_count(f, kind, today, ok) ==
    LET data == _load_counts(f, today)
    IN  _save_counts(f, [data EXCEPT ![kind] = data[kind] + 1], ok)

_load_month_counts(f, current) ==
    IF f.exists /\ f.month = current
    THEN [month |-> current, sms |-> f.sms]
    ELSE [month |-> current, sms |-> 0]

_save_month_counts(f, data, ok) ==
    IF ok THEN [exists |-> TRUE, month |-> data.month, sms |-> data.sms]
    ELSE f

get_month_sms_count(f, current) == _load_month_counts(f, current).sms

inc_month_sms_count(f, current, ok) ==
    LET data == _load_month_counts(f, current)
    IN  _save_month_counts(f, [data EXCEPT !.sms = data.sms + 1], ok)

----------------------------------------------------------------------------
(* Cooldown store *)

_load_epoch_file(f) == IF f = NoFile THEN 0 ELSE f

_save_epoch_file(f, epoch, ok) == IF ok THEN epoch ELSE f

----------------------------------------------------------------------------
(* Settings the engine is run with *)

AllDays == [mon |-> TRUE, tue |-> TRUE, wed |-> TRUE, thu |-> TRUE,
            fri |-> TRUE, sat |-> TRUE, sun |-> TRUE]

\* short thresholds and cooldowns, every reminder on, every day enabled
CfgFast ==
    [DEFAULT_SETTINGS EXCEPT
        !.active_threshold_off_min = 1, !.off_prompt_cooldown_min = 1,
        !.max_clock_in_per_day = 2,
        !.on_idle_threshold_min = 1, !.on_idle_prompt_cooldown_min = 1,
        !.max_clock_out_per_day = 2,
        !.enable_sms_clock_out_reminder = TRUE, !.sms_phone_e164 = PhoneOk,
        !.sms_idle_threshold_min = 45, !.sms_max_per_day = 1,
        !.sms_max_per_month = 1, !.notify_days = AllDays]

\* a hand-edited document: zero thresholds, a phone number that is not in
\* E.164 form, a window across midnight, Saturdays enabled
CfgEdited ==
    [DEFAULT_SETTINGS EXCEPT
        !.clock_in_cutoff_hour = 0, !.active_threshold_off_min = 0,
        !.off_prompt_cooldown_min = 0, !.max_clock_in_per_day = 1,
        !.on_idle_threshold_min = 0, !.on_idle_prompt_cooldown_min = 0,
        !.on_idle_after_hour = 15, !.max_clock_out_per_day = 1,
        !.enable_sms_clock_out_reminder = TRUE, !.sms_phone_e164 = PhoneBad,
        !.sms_idle_threshold_min = 0, !.sms_max_per_day = 2,
        !.sms_window_start_hour = 22, !.sms_window_end_hour = 6,
        !.sms_max_per_month = 2,
        !.notify_days = [WorkDays EXCEPT !.sat = TRUE]]

\* desktop reminders switched off, caps below zero, an all-day window
CfgQuiet ==
    [DEFAULT_SETTINGS EXCEPT
        !.enable_clock_in_reminder = FALSE,
        !.enable_clock_out_idle_reminder = FALSE,
        !.clock_in_cutoff_hour = 24, !.on_idle_after_hour = 30,
        !.enable_sms_clock_out_reminder = TRUE, !.sms_phone_e164 = PhoneBlank,
        !.sms_max_per_day = -1, !.sms_window_start_hour = 9,
        !.sms_window_end_hour = 9]

Configs == {DEFAULT_SETTINGS, CfgFast, CfgEdited, CfgQuiet}

\* readings of the idle sensor, in seconds
IdleValues == {0, 300, 2700}


----------------------------------------------------------------------------
(* What run_tray starts from, beside the files of the counters *)

\* SETTINGS_FILE holding the JSON object c
Stored(c) == [kind |-> "object", obj |-> c]

\* _config_window_open, the threads started for _run (line 784) that have
\* not reached line 565, the windows shown, the "Test SMS" handler
NoWindow == [flag |-> FALSE, pending |-> 0, windows |-> 0, pc |-> "idle"]

\* no call of inc_count is in progress
NoIncrement ==
    [t \in {"monitor", "window"} |-> [pc |-> "idle", kind |-> "on", data |-> NoCounts]]

\* nobody holds _settings_lock; neither the thread that calls get_settings
\* nor the other thread is inside a settings function
Unlocked ==
    [holder |-> "none",
     pc     |-> [caller |-> "idle", other |-> "idle"],
     val    |-> [caller |-> << >>, other |-> << >>]]
----------------------------------------------------------------------------
(* Gating engine *)

RECURSIVE lstrip(_)
lstrip(s) == IF s # << >> /\ Head(s) = " " THEN lstrip(Tail(s)) ELSE s

RECURSIVE rstrip(_)
rstrip(s) ==
    IF s # << >> /\ s[Len(s)] = " " THEN rstrip(SubSeq(s, 1, Len(s) - 1)) ELSE s

\* str.strip()
strip(s) == rstrip(lstrip(s))

\* what _normalize_phone_e164 returns unchanged: "+" and 8 to 15 digits
IsE164(p) ==
    /\ Len(p) >= 9 /\ Len(p) <= 16
    /\ p[1] = "+"
    /\ \A i \in 2..Len(p) : p[i] \in Digits

\* variant: the streak is never reset
StreakNoReset(s, idle, active_idle_cutoff_sec) == s + POLL_INTERVAL_SEC

\* the streak after the OFF branch has looked at the idle time
StreakAfter(s, idle, active_idle_cutoff_sec) ==
    IF idle < active_idle_cutoff_sec THEN s + POLL_INTERVAL_SEC ELSE 0

\* the ON branch is entered
OnBranch(c, st) == st = "On" /\ c.enable_clock_out_idle_reminder

\* the OFF branch is entered
OffBranch(c, st) ==
    ~OnBranch(c, st) /\ st = "Off" /\ c.enable_clock_in_reminder

\* the ON branch reaches get_count("on")
OnReads(c, st, idle, t) ==
    /\ OnBranch(c, st)
    /\ idle >= c.on_idle_threshold_min * 60
    /\ is_after_cutoff_local(c.on_idle_after_hour, Hour(t))

\* the ON branch reaches icon.notify("Still working?")
OnDue(c, st, idle, t, cnt, lon) ==
    /\ OnReads(c, st, idle, t)
    /\ get_count(cnt, "on", _today(t)) < Max(0, c.max_clock_out_per_day)
    /\ t - _load_epoch_file(lon) >= c.on_idle_prompt_cooldown_min * 60

\* the OFF branch reaches get_count("off"); s is the updated streak
OffReads(c, st, s, t) ==
    /\ OffBranch(c, st)
    /\ s >= c.active_threshold_off_min * 60
    /\ is_before_cutoff_local(c.clock_in_cutoff_hour, Hour(t))

\* the OFF branch reaches icon.notify("Forgot to clock in?")
OffDue(c, st, s, t, cnt, loff) ==
    /\ OffReads(c, st, s, t)
    /\ get_count(cnt, "off", _today(t)) < Max(0, c.max_clock_in_per_day)
    /\ t - _load_epoch_file(loff) >= c.off_prompt_cooldown_min * 60

\* the SMS branch reaches get_count("sms")
SmsReads(c, st, idle, t) ==
    /\ st = "On" /\ c.enable_sms_clock_out_reminder
    /\ strip(c.sms_phone_e164) # << >>
    /\ is_in_hour_window(c.sms_window_start_hour, c.sms_window_end_hour, Hour(t))
    /\ idle >= c.sms_idle_threshold_min * 60

\* variant: the monthly budget is not looked at
SmsDayCapOnly(c, t, cnt, mon) ==
    get_count(cnt, "sms", _today(t)) < Max(0, c.sms_max_per_day)

\* both caps leave room for one more SMS
SmsCapsOk(c, t, cnt, mon) ==
    /\ get_count(cnt, "sms", _today(t)) < Max(0, c.sms_max_per_day)
    /\ get_month_sms_count(mon, _this_month(t)) < Max(0, c.sms_max_per_month)

\* the SMS branch reaches _send_sms_twilio
SmsDue(c, st, idle, t, cnt, mon) ==
    SmsReads(c, st, idle, t) /\ SmsCapsOk(c, t, cnt, mon)

\* variant: the bookkeeping runs whatever the dispatch call did
DispatchedAnyway(due, ok) == due

\* the statements after a dispatch call run: the call was made, and it
\* returned normally (icon.notify) or returned True (_send_sms_twilio)
Dispatched(due, ok) == due /\ ok

----------------------------------------------------------------------------
(* monitor_loop: one pass of the loop body.  The result holds the values   *)
(* the pass leaves behind and what it dispatched.                          *)

MonitorPass(c, st, stk, t, cnt, mon, lon, loff, idle, notify_ok, sms_ok, writable) ==
    LET today   == _today(t)
        cur     == _this_month(t)
        enabled == is_notification_day_enabled(c, t)
        \* OFF branch: the streak is updated before anything is dispatched
        streak1 == IF enabled /\ OffBranch(c, st)
                   THEN StreakAfter(stk, idle, c.active_idle_cutoff_sec)
                   ELSE stk
        onDue   == enabled /\ OnDue(c, st, idle, t, cnt, lon)
        offDue  == enabled /\ OffDue(c, st, streak1, t, cnt, loff)
        \* icon.notify raises: the rest of the pass is abandoned
        raised  == IF onDue /\ ~notify_ok THEN "on"
                   ELSE IF offDue /\ ~notify_ok THEN "off" ELSE "none"
        onOk    == Dispatched(onDue, notify_ok)
        offOk   == Dispatched(offDue, notify_ok)
        lon1    == IF onOk THEN _save_epoch_file(lon, t, writable) ELSE lon
        loff1   == IF offOk THEN _save_epoch_file(loff, t, writable) ELSE loff
        cnt1    == IF onOk THEN inc_count(cnt, "on", today, writable)
                   ELSE IF offOk THEN inc_count(cnt, "off", today, writable)
                   ELSE cnt
        smsRead == enabled /\ raised = "none" /\ SmsReads(c, st, idle, t)
        smsDue  == enabled /\ raised = "none" /\ SmsDue(c, st, idle, t, cnt1, mon)
        sent    == Dispatched(smsDue, sms_ok)
        cnt2    == IF sent THEN inc_count(cnt1, "sms", today, writable) ELSE cnt1
        mon1    == IF sent THEN inc_month_sms_count(mon, cur, writable) ELSE mon
        \* get_month_sms_count is reached when the day's count is below its cap
        monRead == smsRead /\ get_count(cnt1, "sms", today) < Max(0, c.sms_max_per_day)
        reads   == (IF enabled /\ OnReads(c, st, idle, t) THEN {"on"} ELSE {})
                   \cup (IF enabled /\ OffReads(c, st, streak1, t)
                         THEN {"off"} ELSE {})
                   \cup (IF smsRead THEN {"sms"} ELSE {})
                   \cup (IF monRead THEN {"month"} ELSE {})
    IN  [streak   |-> streak1,
         last_on  |-> lon1,
         last_off |-> loff1,
         counts   |-> cnt2,
         month    |-> mon1,
         skipped  |-> ~enabled,    \* the weekday gate ended the pass
         on       |-> onDue,       \* icon.notify("Still working?") was called
         off      |-> offDue,      \* icon.notify("Forgot to clock in?") was called
         raised   |-> raised,      \* the notify call that raised
         read     |-> reads,       \* the counters that were read
         smsTried |-> smsDue,      \* _send_sms_twilio was called
         sms      |-> sent,        \* and returned True
         \* a saver was called and its write failed
         lost     |-> (onOk \/ offOk \/ sent) /\ ~writable]

\* the pass the monitor makes in the current state
Pass(idle, notify_ok, sms_ok, writable) ==
    MonitorPass(cfg, status, streak, now, counts, month, last_on, last_off,
                idle, notify_ok, sms_ok, writable)

----------------------------------------------------------------------------
(* History *)

NoEvent == [op |-> "start", idle |-> 0, skipped |-> FALSE, on |-> FALSE,
            off |-> FALSE, raised |-> "none", read |-> {}, smsTried |-> FALSE,
            sms |-> FALSE, lost |-> FALSE, icon |-> "none"]

NoneFired == [day |-> StartDay, on |-> 0, off |-> 0, sms |-> 0,
              t_on |-> NoFile, t_off |-> NoFile]

\* the dispatch history as of day d: the per-day numbers start again
FiredOn(d) ==
    IF fired.day = d THEN fired
    ELSE [fired EXCEPT !.day = d, !.on = 0, !.off = 0, !.sms = 0]

Bump(n) == Min(n + 1, FiredCap)

\* the dispatch history after the pass r made at time t
Recorded(r, t) ==
    LET f0    == FiredOn(_today(t))
        onOk  == r.on /\ r.raised = "none"
        offOk == r.off /\ r.raised = "none"
    IN  [f0 EXCEPT !.on    = IF onOk THEN Bump(f0.on) ELSE f0.on,
                   !.off   = IF offOk THEN Bump(f0.off) ELSE f0.off,
                   !.sms   = IF r.sms THEN Bump(f0.sms) ELSE f0.sms,
                   !.t_on  = IF onOk THEN t ELSE f0.t_on,
                   !.t_off = IF offOk THEN t ELSE f0.t_off]

----------------------------------------------------------------------------
(* STATE_FILE: no file, or the file and its text.  save_state writes the   *)
(* status as it is; load_state strips the text it reads, which changes     *)
(* none of the texts the file can hold here ("On", "Off" and the empty     *)
(* text of a file that was opened for writing and never written).          *)

NoStateFile == << >>

save_state(s) == <<s>>

load_state(f) == IF f = NoStateFile THEN "Off" ELSE f[1]

----------------------------------------------------------------------------
(* The monitor thread: pc is its place in the loop body, st and idle the   *)
(* locals status and idle_s of the pass, reg the value of                  *)
(* _active_streak_seconds it has loaded and not yet stored back, raised    *)
(* whether the pass was ended by the loop's exception handler.  A pass the *)
(* model takes in one step leaves the thread where it was.                 *)

AtStart == [pc |-> "start", st |-> "Off", idle |-> 0, reg |-> 0,
            raised |-> FALSE]

\* the loop body is being evaluated
InPass == mt.pc \notin {"start", "done"}

----------------------------------------------------------------------------
(* Initial state: run_tray() on an application-data directory that holds   *)
(* a settings document and nothing else                                    *)

Started ==
    /\ win = NoWindow
    /\ inc = NoIncrement
    /\ sync = Unlocked
    /\ status = "Off"
    /\ streak = 0
    /\ now = StartDay * 86400
    /\ counts = NoCounts
    /\ month = NoMonth
    /\ last_on = NoFile
    /\ last_off = NoFile
    /\ stateFile = NoStateFile
    /\ ev = NoEvent
    /\ fired = NoneFired
    /\ mt = AtStart
    /\ overtaken = FALSE

Init ==
    /\ cfg \in Configs
    /\ nonint = {}
    /\ settingsFile = Stored(cfg)
    /\ Started

----------------------------------------------------------------------------
(* monitor_loop: one pass, then time.sleep(POLL_INTERVAL_SEC) *)

\* the pass r is made with the idle reading idle
TickStep(r, idle) ==
    /\ (now % 3600) \div POLL_INTERVAL_SEC < MaxSegTicks
    /\ r.streak <= MaxStreak
    /\ streak' = r.streak
    /\ last_on' = r.last_on
    /\ last_off' = r.last_off
    /\ counts' = r.counts
    /\ month' = r.month
    /\ now' = now + POLL_INTERVAL_SEC
    /\ ev' = [op |-> "tick", idle |-> idle, skipped |-> r.skipped,
              on |-> r.on, off |-> r.off, raised |-> r.raised,
              read |-> r.read, smsTried |-> r.smsTried, sms |-> r.sms,
              lost |-> r.lost, icon |-> "none"]
    /\ UNCHANGED <<settingsFile, win, inc, sync, cfg, nonint, status, stateFile, mt, overtaken>>

Tick(idle, notify_ok, sms_ok, writable) ==
    \E r \in {Pass(idle, notify_ok, sms_ok, writable)} :
        TickStep(r, idle) /\ UNCHANGED fired

\* the same pass, with the dispatch history kept
TickRecorded(idle, notify_ok, sms_ok, writable) ==
    \E r \in {Pass(idle, notify_ok, sms_ok, writable)} :
        TickStep(r, idle) /\ fired' = Recorded(r, now)

----------------------------------------------------------------------------
(* The wall clock moves on while the monitor sleeps: to the next hour h of  *)
(* JumpHours                                                               *)

JumpHours == {0, 16}

\* the place of the time t among the times the clock can be moved on to
Jumps(t) ==
    Cardinality(JumpHours) * (_today(t) - StartDay)
       + Cardinality({h \in JumpHours : h > 0 /\ h <= Hour(t)})

ClockAdvance(h) ==
    LET base == _today(now) * 86400 + h * 3600
        t    == IF base > now THEN base ELSE base + 86400
    IN  /\ Jumps(t) <= MaxJumps
        /\ now' = t
        /\ ev' = [NoEvent EXCEPT !.op = "clock"]
        /\ UNCHANGED <<settingsFile, win, inc, sync, cfg, nonint, status, streak, counts, month, last_on, last_off,
                       stateFile, mt, fired, overtaken>>

----------------------------------------------------------------------------
(* Tray menu: Clock in / Clock out *)

set_status(s, write_ok) ==
    /\ ev' = [NoEvent EXCEPT !.op = "set_status", !.lost = ~write_ok,
                             !.icon = s]   \* line 530
    /\ IF write_ok
       THEN /\ stateFile' = save_state(s)
            /\ status' = s
            /\ streak' = 0
            /\ overtaken' = InPass
       ELSE \* save_state raises before the globals are assigned
            UNCHANGED <<stateFile, status, streak, overtaken>>
    /\ UNCHANGED <<settingsFile, win, inc, sync, cfg, nonint, now, counts, month, last_on,
                   last_off, mt, fired>>

----------------------------------------------------------------------------
(* Settings window: the "Test SMS notification" button, with a valid number *)

_test_sms(sms_ok, writable) ==
    LET today == _today(now)
        cur   == _this_month(now)
        dayOk == ~(get_count(counts, "sms", today) >= cfg.sms_max_per_day)
        pass  == /\ dayOk
                 /\ ~(get_month_sms_count(month, cur) >= cfg.sms_max_per_month)
        sent  == pass /\ sms_ok
    IN  /\ counts' = IF sent THEN inc_count(counts, "sms", today, writable)
                     ELSE counts
        /\ month' = IF sent THEN inc_month_sms_count(month, cur, writable)
                    ELSE month
        /\ ev' = [NoEvent EXCEPT !.op = "test_sms", !.smsTried = pass,
                                 !.sms = sent,
                                 !.read = IF dayOk THEN {"sms", "month"}
                                          ELSE {"sms"},
                                 !.lost = sent /\ ~writable]
        /\ UNCHANGED <<settingsFile, win, inc, sync, cfg, nonint, status, streak, now, last_on, last_off, stateFile,
                       mt, fired, overtaken>>

----------------------------------------------------------------------------
(* The program, and the monitor with its dispatch history kept (the        *)
(* settings window stays closed)                                           *)

Next ==
    \/ \E idle \in IdleValues, notify_ok \in BOOLEAN, sms_ok \in BOOLEAN,
          writable \in BOOLEAN : Tick(idle, notify_ok, sms_ok, writable)
    \/ \E h \in JumpHours : ClockAdvance(h)
    \/ \E s \in {"On", "Off"}, write_ok \in BOOLEAN : set_status(s, write_ok)
    \/ \E sms_ok \in BOOLEAN, writable \in BOOLEAN : _test_sms(sms_ok, writable)

Spec == Init /\ [][Next]_vars

NextRecorded ==
    \/ \E idle \in IdleValues, notify_ok \in BOOLEAN, sms_ok \in BOOLEAN,
          writable \in BOOLEAN : TickRecorded(idle, notify_ok, sms_ok, writable)
    \/ \E h \in JumpHours : ClockAdvance(h)
    \/ \E s \in {"On", "Off"}, write_ok \in BOOLEAN : set_status(s, write_ok)

SpecHist == Init /\ [][NextRecorded]_vars


----------------------------------------------------------------------------
(* monitor_loop statement by statement, beside the tray menu's thread.     *)
(* The monitor reads _current_status once (line 434) and works on that     *)
(* local; "_active_streak_seconds += POLL_INTERVAL_SEC" (line 463) is a    *)
(* load and a later store of a global no lock protects.                    *)

\* the passes a run of the threads makes
MaxPasses == 4

PassesMade == (now - StartDay * 86400) \div POLL_INTERVAL_SEC

\* "except Exception: pass" (lines 503-505): the pass ends, the loop goes on
\* to time.sleep (line 507)
HandlerStops(pc) == "dead"

Handler(pc) == "done"

ThreadEvent(op) == [NoEvent EXCEPT !.op = op, !.idle = mt.idle]

\* lines 433-445, 460, 481: the snapshot, the weekday gate, the branch taken
monitor_begin(idle) ==
    /\ mt.pc = "start"
    /\ mt' = [pc |-> IF ~is_notification_day_enabled(cfg, now) THEN "done"
                     ELSE IF OnBranch(cfg, status) THEN "on"
                     ELSE IF OffBranch(cfg, status) THEN "load"
                     ELSE "sms",
              st |-> status, idle |-> idle, reg |-> 0, raised |-> FALSE]
    /\ overtaken' = FALSE
    /\ ev' = [NoEvent EXCEPT !.op = "begin", !.idle = idle,
                             !.skipped = ~is_notification_day_enabled(cfg, now)]
    /\ UNCHANGED <<settingsFile, win, inc, sync, cfg, nonint, status, streak, now, counts, month, last_on, last_off,
                   stateFile, fired>>

\* lines 446-457: the clock-out reminder
monitor_on(notify_ok, writable) ==
    /\ mt.pc = "on"
    /\ LET due == OnDue(cfg, mt.st, mt.idle, now, counts, last_on)
           ok  == Dispatched(due, notify_ok)
       IN  /\ mt' = IF due /\ ~notify_ok
                    THEN [mt EXCEPT !.pc = Handler(mt.pc), !.raised = TRUE]
                    ELSE [mt EXCEPT !.pc = "sms"]
           /\ last_on' = IF ok THEN _save_epoch_file(last_on, now, writable)
                         ELSE last_on
           /\ counts' = IF ok THEN inc_count(counts, "on", _today(now), writable)
                        ELSE counts
           /\ ev' = [ThreadEvent("on") EXCEPT
                        !.on = due,
                        !.raised = IF due /\ ~notify_ok THEN "on" ELSE "none",
                        !.lost = ok /\ ~writable]
    /\ UNCHANGED <<settingsFile, win, inc, sync, cfg, nonint, status, streak, now, month, last_off, stateFile, fired,
                   overtaken>>

\* lines 462-465: the streak is loaded, or set to zero
monitor_load ==
    /\ mt.pc = "load"
    /\ IF mt.idle < cfg.active_idle_cutoff_sec
       THEN /\ mt' = [mt EXCEPT !.pc = "store", !.reg = streak]
            /\ UNCHANGED streak
       ELSE /\ mt' = [mt EXCEPT !.pc = "off"]
            /\ streak' = 0
    /\ ev' = ThreadEvent("load")
    /\ UNCHANGED <<settingsFile, win, inc, sync, cfg, nonint, status, now, counts, month, last_on, last_off,
                   stateFile, fired, overtaken>>

\* line 463: the sum is stored
monitor_store ==
    /\ mt.pc = "store"
    /\ streak' = mt.reg + POLL_INTERVAL_SEC
    /\ mt' = [mt EXCEPT !.pc = "off", !.reg = 0]
    /\ ev' = ThreadEvent("store")
    /\ UNCHANGED <<settingsFile, win, inc, sync, cfg, nonint, status, now, counts, month, last_on, last_off,
                   stateFile, fired, overtaken>>

\* lines 467-478: the clock-in reminder
monitor_off(notify_ok, writable) ==
    /\ mt.pc = "off"
    /\ LET due == OffDue(cfg, mt.st, streak, now, counts, last_off)
           ok  == Dispatched(due, notify_ok)
       IN  /\ mt' = IF due /\ ~notify_ok
                    THEN [mt EXCEPT !.pc = Handler(mt.pc), !.raised = TRUE]
                    ELSE [mt EXCEPT !.pc = "sms"]
           /\ last_off' = IF ok THEN _save_epoch_file(last_off, now, writable)
                          ELSE last_off
           /\ counts' = IF ok THEN inc_count(counts, "off", _today(now), writable)
                        ELSE counts
           /\ ev' = [ThreadEvent("off") EXCEPT
                        !.off = due,
                        !.raised = IF due /\ ~notify_ok THEN "off" ELSE "none",
                        !.lost = ok /\ ~writable]
    /\ UNCHANGED <<settingsFile, win, inc, sync, cfg, nonint, status, streak, now, month, last_on, stateFile, fired,
                   overtaken>>

\* lines 481-494: the SMS rule up to the call of _send_sms_twilio
monitor_sms ==
    /\ mt.pc = "sms"
    /\ LET due == SmsDue(cfg, mt.st, mt.idle, now, counts, month)
       IN  /\ mt' = [mt EXCEPT !.pc = IF due THEN "send" ELSE "done"]
           /\ ev' = [ThreadEvent("sms") EXCEPT !.smsTried = due]
    /\ UNCHANGED <<settingsFile, win, inc, sync, cfg, nonint, status, streak, now, counts, month, last_on, last_off,
                   stateFile, fired, overtaken>>

\* lines 495-501: _send_sms_twilio returns
monitor_sent(sms_ok, writable) ==
    /\ mt.pc = "send"
    /\ LET sent == Dispatched(TRUE, sms_ok)
       IN  /\ counts' = IF sent
                        THEN inc_count(counts, "sms", _today(now), writable)
                        ELSE counts
           /\ month' = IF sent
                       THEN inc_month_sms_count(month, _this_month(now), writable)
                       ELSE month
           /\ ev' = [ThreadEvent("sent") EXCEPT !.smsTried = TRUE, !.sms = sent,
                                               !.lost = sent /\ ~writable]
    /\ mt' = [mt EXCEPT !.pc = "done"]
    /\ UNCHANGED <<settingsFile, win, inc, sync, cfg, nonint, status, streak, now, last_on, last_off, stateFile,
                   fired, overtaken>>

\* a statement of the loop body raises an exception nobody expected
monitor_raise ==
    /\ mt.pc \in {"start", "on", "load", "store", "off", "sms"}
    /\ mt' = [mt EXCEPT !.pc = Handler(mt.pc), !.reg = 0, !.raised = TRUE]
    /\ ev' = [ThreadEvent("raise") EXCEPT !.raised = mt.pc]
    /\ UNCHANGED <<settingsFile, win, inc, sync, cfg, nonint, status, streak, now, counts, month, last_on, last_off,
                   stateFile, fired, overtaken>>

\* line 507 (line 441 after the weekday gate): time.sleep(POLL_INTERVAL_SEC)
monitor_sleep ==
    /\ mt.pc = "done"
    /\ PassesMade < MaxPasses
    /\ now' = now + POLL_INTERVAL_SEC
    /\ mt' = [mt EXCEPT !.pc = "start"]
    /\ ev' = [ThreadEvent("sleep") EXCEPT
                 !.raised = IF mt.raised THEN "pass" ELSE "none"]
    /\ UNCHANGED <<settingsFile, win, inc, sync, cfg, nonint, status, streak, counts, month, last_on, last_off,
                   stateFile, fired, overtaken>>

MonitorStep ==
    \/ \E idle \in IdleValues : monitor_begin(idle)
    \/ \E notify_ok \in BOOLEAN, writable \in BOOLEAN : monitor_on(notify_ok, writable)
    \/ monitor_load
    \/ monitor_store
    \/ \E notify_ok \in BOOLEAN, writable \in BOOLEAN : monitor_off(notify_ok, writable)
    \/ monitor_sms
    \/ monitor_raise
    \/ monitor_sleep

SmsReturns ==
    \E sms_ok \in BOOLEAN, writable \in BOOLEAN : monitor_sent(sms_ok, writable)

MenuStep ==
    \E s \in {"On", "Off"}, write_ok \in BOOLEAN : set_status(s, write_ok)

InitThreads ==
    /\ Init
    /\ cfg \in {CfgFast, CfgEdited}

NextThreads == MonitorStep \/ SmsReturns \/ MenuStep

SpecThreads == InitThreads /\ [][NextThreads]_vars

\* the scheduler lets the monitor thread run; the network answers the SMS
\* request or does not
SpecThreadsFair == SpecThreads /\ WF_vars(MonitorStep)

----------------------------------------------------------------------------
(* The pass of the monitor over a settings snapshot in which the value of  *)
(* some numeric settings is a text int() cannot convert.  load_settings    *)
(* takes the values of settings.json as they are; the monitor converts     *)
(* them with int(cfg.get(key, default)) at the head of the branch that     *)
(* uses them, and int() raises ValueError.  bad is the set of those keys;  *)
(* c holds DEFAULT_SETTINGS' value in their place.                         *)

\* lines 446-449
OnInts == {"on_idle_threshold_min", "on_idle_prompt_cooldown_min",
           "on_idle_after_hour", "max_clock_out_per_day"}

\* lines 467-470
OffInts == {"active_threshold_off_min", "off_prompt_cooldown_min",
            "clock_in_cutoff_hour", "max_clock_in_per_day"}

\* lines 482-489
SmsInts == {"sms_idle_threshold_min", "sms_max_per_day", "sms_max_per_month",
            "sms_window_start_hour", "sms_window_end_hour"}

MonitorPassRaw(c, bad, st, stk, t, cnt, mon, lon, loff, idle, notify_ok, sms_ok, writable) ==
    LET enabled  == is_notification_day_enabled(c, t)
        onBad    == enabled /\ OnBranch(c, st) /\ bad \cap OnInts # {}
        \* line 461, before the streak is updated
        offEarly == /\ enabled /\ OffBranch(c, st)
                    /\ "active_idle_cutoff_sec" \in bad
        \* lines 467-470, after it
        offLate  == /\ enabled /\ OffBranch(c, st) /\ ~offEarly
                    /\ bad \cap OffInts # {}
        smsBad   == /\ enabled /\ st = "On" /\ c.enable_sms_clock_out_reminder
                    /\ bad \cap SmsInts # {}
        whole    == MonitorPass(c, st, stk, t, cnt, mon, lon, loff, idle,
                                notify_ok, sms_ok, writable)
        \* the pass up to the SMS rule
        noSms    == MonitorPass([c EXCEPT !.enable_sms_clock_out_reminder = FALSE],
                                st, stk, t, cnt, mon, lon, loff, idle,
                                notify_ok, sms_ok, writable)
        nothing  == [streak |-> stk, last_on |-> lon, last_off |-> loff,
                     counts |-> cnt, month |-> mon, skipped |-> FALSE,
                     on |-> FALSE, off |-> FALSE, raised |-> "int",
                     read |-> {}, smsTried |-> FALSE, sms |-> FALSE,
                     lost |-> FALSE]
    IN  IF onBad \/ offEarly THEN nothing
        ELSE IF offLate
        THEN [nothing EXCEPT
                 !.streak = StreakAfter(stk, idle, c.active_idle_cutoff_sec)]
        ELSE IF smsBad /\ noSms.raised = "none"
        THEN [noSms EXCEPT !.raised = "int"]
        ELSE whole

TickRaw(idle, notify_ok, sms_ok, writable) ==
    \E r \in {MonitorPassRaw(cfg, nonint, status, streak, now, counts, month,
                             last_on, last_off, idle, notify_ok, sms_ok,
                             writable)} :
        TickStep(r, idle) /\ UNCHANGED fired

\* the settings a run is made with: one of them at most is not a number
Malformable == {"on_idle_threshold_min", "active_idle_cutoff_sec",
                "off_prompt_cooldown_min", "sms_max_per_day"}

InitMalformed ==
    /\ nonint \in {{}} \cup {{k} : k \in Malformable}
    /\ cfg = [k \in DOMAIN CfgFast |->
                 IF k \in nonint THEN DEFAULT_SETTINGS[k] ELSE CfgFast[k]]
    /\ settingsFile = Stored(cfg)
    /\ Started

NextMalformed ==
    \/ \E idle \in IdleValues, notify_ok \in BOOLEAN, sms_ok \in BOOLEAN,
          writable \in BOOLEAN : TickRaw(idle, notify_ok, sms_ok, writable)
    \/ \E h \in JumpHours : ClockAdvance(h)
    \/ \E s \in {"On", "Off"}, write_ok \in BOOLEAN : set_status(s, write_ok)

SpecMalformed == InitMalformed /\ [][NextMalformed]_vars

----------------------------------------------------------------------------
(* The hour gates by themselves: one call of is_in_hour_window with any    *)
(* start hour, end hour and hour of the day, or one call of                *)
(* is_before_cutoff_local with any cut-off from CutoffSpan hours below 0   *)
(* to CutoffSpan hours above 24 at any hour of the day.  ev holds the      *)
(* arguments and then the value returned.                                  *)

CutoffSpan == 3

HoursOfDay == 0 .. 23

EndHours == 1 .. 24

Cutoffs == (0 - CutoffSpan) .. (24 + CutoffSpan)

\* a call that is about to be made, and the call made
Calling(op, args) == [op |-> "call", fn |-> op, args |-> args]

Called(op, args, result) == [op |-> op, args |-> args, result |-> result]

hour_window_call ==
    /\ ev.op = "call" /\ ev.fn = "is_in_hour_window"
    /\ ev' = Called(ev.fn, ev.args,
                    is_in_hour_window(ev.args[1], ev.args[2], ev.args[3]))
    /\ UNCHANGED <<settingsFile, win, inc, sync, cfg, nonint, status, streak, now, counts, month, last_on,
                   last_off, stateFile, mt, fired, overtaken>>

cutoff_call ==
    /\ ev.op = "call" /\ ev.fn = "is_before_cutoff_local"
    /\ ev' = Called(ev.fn, ev.args,
                    is_before_cutoff_local(ev.args[1], ev.args[2]))
    /\ UNCHANGED <<settingsFile, win, inc, sync, cfg, nonint, status, streak, now, counts, month, last_on,
                   last_off, stateFile, mt, fired, overtaken>>

InitHours ==
    /\ cfg = DEFAULT_SETTINGS
    /\ nonint = {}
    /\ settingsFile = Stored(cfg)
    /\ win = NoWindow
    /\ inc = NoIncrement
    /\ sync = Unlocked
    /\ status = "Off"
    /\ streak = 0
    /\ now = StartDay * 86400
    /\ counts = NoCounts
    /\ month = NoMonth
    /\ last_on = NoFile
    /\ last_off = NoFile
    /\ stateFile = NoStateFile
    /\ fired = NoneFired
    /\ mt = AtStart
    /\ overtaken = FALSE
    /\ ev \in {Calling("is_in_hour_window", <<s, e, h>>) :
                  s \in HoursOfDay, e \in EndHours, h \in HoursOfDay}
             \cup {Calling("is_before_cutoff_local", <<cutoff, h>>) :
                      cutoff \in Cutoffs, h \in HoursOfDay}

NextHours == hour_window_call \/ cutoff_call

SpecHours == InitHours /\ [][NextHours]_vars

----------------------------------------------------------------------------
(* The settings cache and the documents it is filled from.  settings.json  *)
(* is anybody's to edit, so load_settings reads any document: no file, a   *)
(* text json.load rejects, a JSON value Python takes as false (null, 0,    *)
(* "", [], {}), a JSON object, or another JSON value (a non-empty list or  *)
(* text, a number, true).  An object holds some of the known keys, with    *)
(* the values of some settings, and may hold a key DEFAULT_SETTINGS does   *)
(* not know.                                                               *)

\* _settings_cache = None
NoCache == << >>

JsonObject(c, known, unknown) ==
    [k \in known \cup unknown |-> IF k \in known THEN c[k] ELSE "dark"]

KeySets == {{}, DOMAIN DEFAULT_SETTINGS,
            DOMAIN DEFAULT_SETTINGS \ {"sms_max_per_day"},
            {"sms_phone_e164", "notify_days"},
            {"enable_clock_in_reminder", "clock_in_cutoff_hour"},
            {"notify_days"}}

JsonObjects ==
    {JsonObject(c, known, unknown) :
        c \in Configs, known \in KeySets,
        unknown \in {{}, {"theme"}}} \ {NoCache}

Documents ==
    {[kind |-> k, obj |-> NoCache] : k \in {"missing", "invalid", "false", "other"}}
       \cup {[kind |-> "object", obj |-> o] : o \in JsonObjects}

\* lines 92-99: the value of data when the try statement is left
Parsed(doc) ==
    IF doc.kind \in {"missing", "invalid"} THEN DEFAULT_SETTINGS
    ELSE IF doc.kind = "false" THEN NoCache
    ELSE doc.obj

\* lines 102-103 and 113: the known keys, from data where it has them
Merged(data) ==
    [k \in DOMAIN DEFAULT_SETTINGS |->
        IF k \in DOMAIN data THEN data[k] ELSE DEFAULT_SETTINGS[k]]

\* line 103: data.get on a value that is not a dict raises AttributeError,
\* outside the try statement
LoadRaises(doc) == doc.kind = "other"

\* run_tray has ended with the exception of its load_settings call
Crashed == cfg = NoCache /\ ev.op = "load_settings"

\* doc is SETTINGS_FILE as the call finds it: the user or another program
\* may have rewritten the file since the program last wrote it
load_settings(doc) ==
    /\ ~Crashed
    /\ settingsFile' = doc
    /\ cfg' = IF LoadRaises(doc) THEN cfg ELSE Merged(Parsed(doc))
    /\ ev' = [op |-> "load_settings", doc |-> doc, raised |-> LoadRaises(doc)]
    /\ UNCHANGED <<win, inc, sync, nonint, status, streak, now, counts, month, last_on,
                   last_off, stateFile, mt, fired, overtaken>>

\* the settings window's Save button; the cache is set in the finally
\* clause, whether or not the file was written
save_settings(new_values, write_ok) ==
    /\ cfg # NoCache
    /\ cfg' = Merged(new_values)
    /\ settingsFile' = IF write_ok THEN Stored(Merged(new_values)) ELSE settingsFile
    /\ ev' = [op |-> "save_settings",
              doc |-> [kind |-> "object", obj |-> new_values],
              raised |-> ~write_ok]
    /\ UNCHANGED <<win, inc, sync, nonint, status, streak, now, counts, month, last_on,
                   last_off, stateFile, mt, fired, overtaken>>

InitSettings ==
    /\ cfg = NoCache
    /\ nonint = {}
    /\ settingsFile = [kind |-> "missing", obj |-> NoCache]
    /\ Started

NextSettings ==
    \/ \E doc \in Documents : load_settings(doc)
    \/ \E new_values \in JsonObjects \cup {NoCache}, write_ok \in BOOLEAN :
          save_settings(new_values, write_ok)

SpecSettings == InitSettings /\ [][NextSettings]_vars

----------------------------------------------------------------------------
(* The program is ended and started again: run_tray takes the clock state  *)
(* from STATE_FILE (lines 804-806); the streak starts at zero (line 426).  *)

run_tray ==
    /\ status' = load_state(stateFile)
    /\ streak' = 0
    /\ mt' = AtStart
    /\ overtaken' = FALSE
    /\ ev' = [NoEvent EXCEPT !.op = "run_tray"]
    /\ UNCHANGED <<settingsFile, win, inc, sync, cfg, nonint, now, counts, month, last_on, last_off,
                   stateFile, fired>>

\* Clock in / Clock out when save_state has opened STATE_FILE for writing,
\* which empties it, and the write does not reach the disk: save_state
\* raises (line 265) and set_status ends before it assigns the globals
set_status_cut(s) ==
    /\ stateFile' = save_state("")
    /\ ev' = [NoEvent EXCEPT !.op = "set_status", !.lost = TRUE, !.icon = s]
    /\ UNCHANGED <<settingsFile, win, inc, sync, cfg, nonint, status, streak, now, counts, month, last_on,
                   last_off, mt, fired, overtaken>>

InitRestart ==
    /\ cfg = CfgEdited
    /\ nonint = {}
    /\ settingsFile = Stored(cfg)
    /\ Started

NextRestart ==
    \/ \E idle \in IdleValues, notify_ok \in BOOLEAN, sms_ok \in BOOLEAN,
          writable \in BOOLEAN : Tick(idle, notify_ok, sms_ok, writable)
    \/ \E s \in {"On", "Off"}, write_ok \in BOOLEAN : set_status(s, write_ok)
    \/ \E s \in {"On", "Off"} : set_status_cut(s)
    \/ run_tray

SpecRestart == InitRestart /\ [][NextRestart]_vars

----------------------------------------------------------------------------
(* _normalize_phone_e164 when the phonenumbers package cannot be imported  *)
(* (lines 384-394), called once on a text of the settings window's phone   *)
(* field: an opening, a run of up to MaxDigits digits, plain or with a     *)
(* hyphen or a second "+" in it, and an ending.                            *)

MaxDigits == 17

IsDigit(ch) == ch \in Digits

IsDigitOrPlus(ch) == ch \in Digits \cup {"+"}

\* an opening, the digits 1, 2, ... of a run split or not by ch, an ending
PhoneTexts ==
    LET names == <<"1", "2", "3", "4", "5", "6", "7", "8", "9", "0">>
        run(n) == [i \in 1 .. n |-> names[((i - 1) % 10) + 1]]
        split(r, ch) == SubSeq(r, 1, Len(r) \div 2) \o <<ch>>
                           \o SubSeq(r, Len(r) \div 2 + 1, Len(r))
        openings == {<< >>, <<"+">>, <<"(", "+">>, <<"0", "0">>, <<"x", "1", "+">>}
        endings == {<< >>, <<" ", "e", "x", "t", " ", "9", "9">>}
    IN  {o \o b \o e :
            o \in openings,
            b \in UNION {{run(n), split(run(n), "-"), split(run(n), "+")} :
                            n \in 0 .. MaxDigits},
            e \in endings}

\* without the test of the number of digits
_normalize_phone_anylength(raw) ==
    LET s == SelectSeq(raw, IsDigitOrPlus)
    IN  IF s = << >> \/ Head(s) # "+" THEN << >>
        ELSE <<"+">> \o SelectSeq(Tail(s), IsDigit)

_normalize_phone_e164(raw) ==
    LET s == SelectSeq(raw, IsDigitOrPlus)
    IN  IF s = << >> \/ Head(s) # "+" THEN << >>
        ELSE LET digits == SelectSeq(Tail(s), IsDigit)
             IN  IF 8 <= Len(digits) /\ Len(digits) <= 15
                 THEN <<"+">> \o digits
                 ELSE << >>

normalize_call ==
    /\ ev.op = "call" /\ ev.fn = "_normalize_phone_e164"
    /\ ev' = Called(ev.fn, ev.args, _normalize_phone_e164(ev.args[1]))
    /\ UNCHANGED <<settingsFile, win, inc, sync, cfg, nonint, status, streak, now, counts, month, last_on,
                   last_off, stateFile, mt, fired, overtaken>>

InitPhone ==
    /\ cfg = DEFAULT_SETTINGS
    /\ nonint = {}
    /\ settingsFile = Stored(cfg)
    /\ win = NoWindow
    /\ inc = NoIncrement
    /\ sync = Unlocked
    /\ status = "Off"
    /\ streak = 0
    /\ now = StartDay * 86400
    /\ counts = NoCounts
    /\ month = NoMonth
    /\ last_on = NoFile
    /\ last_off = NoFile
    /\ stateFile = NoStateFile
    /\ fired = NoneFired
    /\ mt = AtStart
    /\ overtaken = FALSE
    /\ ev \in {Calling("_normalize_phone_e164", <<raw>>) : raw \in PhoneTexts}

NextPhone == normalize_call

SpecPhone == InitPhone /\ [][NextPhone]_vars

----------------------------------------------------------------------------
(* The monitor under settings whose notify_days, as read from              *)
(* settings.json, has entries for some of the weekdays only.  The merge of *)
(* load_settings (line 103) takes notify_days from the file as one value.  *)

DayMasks ==
    {[k \in days |-> WorkDays[k]] :
        days \in {{"mon", "tue", "wed", "thu", "fri", "sat", "sun"},
                  {"mon", "tue", "wed", "thu", "fri"},
                  {"sat"}, {}}}

InitDays ==
    /\ cfg \in {Merged([notify_days |-> d, on_idle_threshold_min |-> 1,
                        on_idle_prompt_cooldown_min |-> 1]) : d \in DayMasks}
    /\ nonint = {}
    /\ settingsFile = Stored(cfg)
    /\ Started

SpecDays == InitDays /\ [][Next]_vars

----------------------------------------------------------------------------
(* The settings window (open_config).  The tray menu's Configure starts a  *)
(* thread for _run when _config_window_open is false (lines 556-558, 784); *)
(* _run sets the flag, reads the settings and shows the window (lines      *)
(* 564-569); "Save & Close" is on_save_and_close (lines 678-725); closing  *)
(* the window is on_close (lines 773-778).  A numeric entry of the form is *)
(* its text, taken as int() takes it: [ok |-> FALSE] when int() raises.    *)

\* Configure is chosen at most this many times while threads or windows of
\* earlier choices are there
MaxClicks == 2

ClampFields ==
    [clock_in_cutoff_hour  |-> [lo |-> 1, hi |-> 24],
     on_idle_after_hour    |-> [lo |-> 0, hi |-> 23],
     sms_window_start_hour |-> [lo |-> 0, hi |-> 23],
     sms_window_end_hour   |-> [lo |-> 1, hi |-> 24]]

ToIntFields ==
    {"active_threshold_off_min", "off_prompt_cooldown_min", "max_clock_in_per_day",
     "on_idle_threshold_min", "on_idle_prompt_cooldown_min",
     "max_clock_out_per_day", "sms_idle_threshold_min"}

NumericFields == DOMAIN ClampFields \cup ToIntFields

CheckFields ==
    {"enable_clock_in_reminder", "enable_clock_out_idle_reminder",
     "enable_sms_clock_out_reminder", "notify_days"}

_to_int(val, default) == IF val.ok THEN val.v ELSE default

_clamp(v, lo, hi) == IF ~v.ok THEN lo ELSE Max(lo, Min(hi, v.v))

\* the form as _run fills it from the settings c (lines 614-656)
Shown(c) ==
    [k \in NumericFields \cup CheckFields \cup {"sms_phone_e164"} |->
        IF k \in NumericFields THEN [ok |-> TRUE, v |-> c[k]] ELSE c[k]]

\* the form with one of its numeric entries edited (a text int() refuses, or
\* 30), or with the SMS box and the number edited
Forms ==
    LET entries == {[ok |-> FALSE, v |-> 0], [ok |-> TRUE, v |-> 30]}
        phones  == {PhoneBad, PhoneNone, PhoneBlank, <<" ">> \o PhoneOk \o <<" ">>,
                    <<"+", "1", "-", "8", "0", "0", "-", "5", "5", "5", "-",
                      "0", "1", "0", "0">>}
    IN  {[Shown(DEFAULT_SETTINGS) EXCEPT ![k] = e] :
            k \in NumericFields, e \in entries}
           \cup {[Shown(DEFAULT_SETTINGS) EXCEPT
                     !.enable_sms_clock_out_reminder = b, !.sms_phone_e164 = p] :
                    b \in BOOLEAN, p \in phones}

\* lines 681-682
PhoneNorm(form) ==
    LET raw_phone == strip(form.sms_phone_e164)
    IN  IF raw_phone # << >> THEN _normalize_phone_e164(raw_phone) ELSE << >>

\* variant: the form is saved whatever the number
RejectedNever(form) == FALSE

\* line 684
Rejected(form) ==
    form.enable_sms_clock_out_reminder /\ PhoneNorm(form) = << >>

\* lines 688-722
new_cfg(form) ==
    [k \in DOMAIN DEFAULT_SETTINGS |->
        IF k \in DOMAIN ClampFields
        THEN _clamp(form[k], ClampFields[k].lo, ClampFields[k].hi)
        ELSE IF k \in ToIntFields THEN _to_int(form[k], DEFAULT_SETTINGS[k])
        ELSE IF k = "sms_phone_e164" THEN PhoneNorm(form)
        ELSE IF k \in CheckFields THEN form[k]
        ELSE DEFAULT_SETTINGS[k]]

WindowEvent(op) == [op |-> op, form |-> << >>, error |-> FALSE, raised |-> FALSE]

\* the tray menu's Configure
open_config ==
    /\ win.pending + win.windows < MaxClicks
    /\ win' = IF win.flag THEN win ELSE [win EXCEPT !.pending = @ + 1]
    /\ ev' = [WindowEvent("open_config") EXCEPT !.error = win.flag]
    /\ UNCHANGED <<settingsFile, inc, sync, cfg, nonint, status, streak, now, counts,
                   month, last_on, last_off, stateFile, mt, fired, overtaken>>

\* a thread started by open_config runs _run up to root.mainloop(); when
\* load_settings raises (line 103) the thread ends with the flag set
_run ==
    /\ win.pending > 0
    /\ IF LoadRaises(settingsFile)
       THEN /\ win' = [win EXCEPT !.pending = @ - 1, !.flag = TRUE]
            /\ UNCHANGED cfg
       ELSE /\ win' = [win EXCEPT !.pending = @ - 1, !.flag = TRUE,
                                  !.windows = @ + 1]
            /\ cfg' = Merged(Parsed(settingsFile))
    /\ ev' = [WindowEvent("_run") EXCEPT !.raised = LoadRaises(settingsFile)]
    /\ UNCHANGED <<settingsFile, inc, sync, nonint, status, streak, now, counts,
                   month, last_on, last_off, stateFile, mt, fired, overtaken>>

\* "Save & Close" on a window showing form; save_settings sets the cache in
\* its finally clause and lets the error of the write pass to the caller,
\* which then does not reach on_close (line 725)
on_save_and_close(form, write_ok) ==
    /\ win.windows > 0
    /\ IF Rejected(form)
       THEN /\ ev' = [WindowEvent("on_save_and_close") EXCEPT
                         !.form = form, !.error = TRUE]
            /\ UNCHANGED <<cfg, settingsFile, win>>
       ELSE /\ ev' = [WindowEvent("on_save_and_close") EXCEPT
                         !.form = form, !.raised = ~write_ok]
            /\ cfg' = Merged(new_cfg(form))
            /\ settingsFile' = IF write_ok THEN Stored(Merged(new_cfg(form)))
                               ELSE settingsFile
            /\ win' = IF write_ok
                      THEN [win EXCEPT !.flag = FALSE, !.windows = @ - 1]
                      ELSE win
    /\ UNCHANGED <<inc, sync, nonint, status, streak, now, counts, month, last_on,
                   last_off, stateFile, mt, fired, overtaken>>

\* the window is closed by its close button
on_close ==
    /\ win.windows > 0
    /\ win' = [win EXCEPT !.flag = FALSE, !.windows = @ - 1]
    /\ ev' = WindowEvent("on_close")
    /\ UNCHANGED <<settingsFile, inc, sync, cfg, nonint, status, streak, now, counts,
                   month, last_on, last_off, stateFile, mt, fired, overtaken>>

InitWindow ==
    /\ cfg \in {DEFAULT_SETTINGS, CfgFast}
    /\ nonint = {}
    /\ settingsFile = Stored(cfg)
    /\ Started

NextWindow ==
    \/ open_config
    \/ _run
    \/ \E form \in Forms, write_ok \in BOOLEAN : on_save_and_close(form, write_ok)
    \/ on_close

SpecWindow == InitWindow /\ [][NextWindow]_vars

----------------------------------------------------------------------------
(* _settings_lock (a threading.Lock, line 70) and the three functions that *)
(* take it.  One thread calls get_settings (as monitor_loop does, line     *)
(* 433); another calls load_settings or save_settings (as the settings     *)
(* window does, lines 567 and 724).  The module has just been imported:    *)
(* _settings_cache is None (line 71).                                      *)

SyncEvent(op, t) == [op |-> op, thread |-> t, raised |-> FALSE]

\* line 121: get_settings is entered
get_settings_call ==
    /\ sync.pc.caller = "idle"
    /\ sync' = [sync EXCEPT !.pc.caller = "called"]
    /\ ev' = SyncEvent("get_settings_call", "caller")
    /\ UNCHANGED <<settingsFile, win, inc, cfg, nonint, status, streak, now, counts,
                   month, last_on, last_off, stateFile, mt, fired, overtaken>>

\* line 122: "with _settings_lock" acquires the lock when nobody holds it
get_settings_lock ==
    /\ sync.pc.caller = "called"
    /\ sync.holder = "none"
    /\ sync' = [sync EXCEPT !.holder = "caller", !.pc.caller = "locked"]
    /\ ev' = SyncEvent("get_settings_lock", "caller")
    /\ UNCHANGED <<settingsFile, win, inc, cfg, nonint, status, streak, now, counts,
                   month, last_on, last_off, stateFile, mt, fired, overtaken>>

\* lines 123-125: the copy of the cache is returned and the lock released,
\* or load_settings is called with the lock held
get_settings_body ==
    /\ sync.pc.caller = "locked"
    /\ sync' = IF cfg = NoCache
               THEN [sync EXCEPT !.pc.caller = "load"]
               ELSE [sync EXCEPT !.pc.caller = "idle", !.holder = "none"]
    /\ ev' = SyncEvent(IF cfg = NoCache THEN "get_settings_load"
                       ELSE "get_settings_return", "caller")
    /\ UNCHANGED <<settingsFile, win, inc, cfg, nonint, status, streak, now, counts,
                   month, last_on, last_off, stateFile, mt, fired, overtaken>>

\* lines 91-103 on the thread t: the file is read and merged; the exception
\* of line 103 leaves load_settings and, on the caller, get_settings and
\* its with statement
load_settings_read(t) ==
    /\ sync.pc[t] = IF t = "caller" THEN "load" ELSE "idle"
    /\ sync' = IF LoadRaises(settingsFile)
               THEN [sync EXCEPT !.pc[t] = "idle",
                                 !.holder = IF @ = t THEN "none" ELSE @]
               ELSE [sync EXCEPT !.pc[t] = "store",
                                 !.val[t] = Merged(Parsed(settingsFile))]
    /\ ev' = [SyncEvent("load_settings_read", t) EXCEPT
                 !.raised = LoadRaises(settingsFile)]
    /\ UNCHANGED <<settingsFile, win, inc, cfg, nonint, status, streak, now, counts,
                   month, last_on, last_off, stateFile, mt, fired, overtaken>>

\* lines 111-116 on the other thread: the file is written, or not
save_settings_write(new_values, write_ok) ==
    /\ sync.pc.other = "idle"
    /\ settingsFile' = IF write_ok THEN Stored(Merged(new_values)) ELSE settingsFile
    /\ sync' = [sync EXCEPT !.pc.other = "store", !.val.other = Merged(new_values)]
    /\ ev' = [SyncEvent("save_settings_write", "other") EXCEPT !.raised = ~write_ok]
    /\ UNCHANGED <<win, inc, cfg, nonint, status, streak, now, counts,
                   month, last_on, last_off, stateFile, mt, fired, overtaken>>

\* lines 105-106 and 118-119 on the thread t: "with _settings_lock" acquires
\* the lock when nobody holds it (the lock is not reentrant), the cache is
\* assigned, the lock released; on the caller get_settings then returns
\* and releases the lock it took
cache_store(t) ==
    /\ sync.pc[t] = "store"
    /\ sync.holder = "none"
    /\ cfg' = sync.val[t]
    /\ sync' = [sync EXCEPT !.pc[t] = "idle", !.val[t] = << >>]
    /\ ev' = SyncEvent("cache_store", t)
    /\ UNCHANGED <<settingsFile, win, inc, nonint, status, streak, now, counts,
                   month, last_on, last_off, stateFile, mt, fired, overtaken>>

\* the file is rewritten by hand
edit_settings(doc) ==
    /\ settingsFile' = doc
    /\ ev' = SyncEvent("edit_settings", "user")
    /\ UNCHANGED <<win, inc, sync, cfg, nonint, status, streak, now, counts,
                   month, last_on, last_off, stateFile, mt, fired, overtaken>>

CallerStep ==
    \/ get_settings_call
    \/ get_settings_lock
    \/ get_settings_body
    \/ load_settings_read("caller")
    \/ cache_store("caller")

OtherStep ==
    \/ load_settings_read("other")
    \/ \E new_values \in {CfgFast, CfgEdited}, write_ok \in BOOLEAN :
          save_settings_write(new_values, write_ok)
    \/ cache_store("other")

InitSync ==
    /\ cfg = NoCache
    /\ nonint = {}
    /\ settingsFile = Stored(DEFAULT_SETTINGS)
    /\ Started

NextSync ==
    \/ CallerStep
    \/ OtherStep
    \/ \E k \in {"missing", "other"} : edit_settings([kind |-> k, obj |-> NoCache])

SpecSync == InitSync /\ [][NextSync]_vars

\* the scheduler lets each thread run, and a thread that finds the lock free
\* again and again gets it: the holders release it after a few statements
\* and the monitor sleeps between its calls
SpecSyncFair == SpecSync /\ SF_vars(CallerStep) /\ SF_vars(OtherStep)

----------------------------------------------------------------------------
(* inc_count statement by statement on two threads: the monitor counts a   *)
(* reminder (lines 457, 477) while the settings window counts a test SMS   *)
(* (line 757).  COUNTS_FILE is read (line 203) and later written (line     *)
(* 205); no lock is taken.  Every write succeeds here.                     *)

\* inc_count is called while the count is below this
MaxIncrements == 3

\* line 203: data = _load_counts()
inc_count_load(t, kind) ==
    /\ inc[t].pc = "idle"
    /\ get_count(counts, kind, _today(now)) < MaxIncrements
    /\ inc' = [inc EXCEPT ![t] = [pc |-> "loaded", kind |-> kind,
                                  data |-> _load_counts(counts, _today(now))]]
    /\ ev' = [op |-> "inc_count_load", thread |-> t, kind |-> kind]
    /\ UNCHANGED <<settingsFile, win, sync, cfg, nonint, status, streak, now, counts,
                   month, last_on, last_off, stateFile, mt, fired, overtaken>>

\* lines 204-205: data[kind] += 1; _save_counts(data)
inc_count_save(t) ==
    /\ inc[t].pc = "loaded"
    /\ counts' = _save_counts(counts,
                    [inc[t].data EXCEPT ![inc[t].kind] = @ + 1], TRUE)
    /\ inc' = [inc EXCEPT ![t] = NoIncrement[t]]
    /\ ev' = [op |-> "inc_count", thread |-> t, kind |-> inc[t].kind]
    /\ UNCHANGED <<settingsFile, win, sync, cfg, nonint, status, streak, now,
                   month, last_on, last_off, stateFile, mt, fired, overtaken>>

InitCounts ==
    /\ cfg = DEFAULT_SETTINGS
    /\ nonint = {}
    /\ settingsFile = Stored(cfg)
    /\ Started

NextCounts ==
    \/ \E kind \in {"on", "off"} : inc_count_load("monitor", kind)
    \/ inc_count_load("window", "sms")
    \/ \E t \in {"monitor", "window"} : inc_count_save(t)

SpecCounts == InitCounts /\ [][NextCounts]_vars

----------------------------------------------------------------------------
(* The monitor thread beside the settings window's "Test SMS" handler,     *)
(* statement by statement: each tests the caps (lines 492, 745-750), calls *)
(* _send_sms_twilio (lines 495, 752) and then counts the SMS (lines        *)
(* 496-497, 757-758).  fired.sms is the number of SMS sent on fired.day;   *)
(* the run stays within that day, and every write succeeds.                *)

\* lines 495-501 with the SMS entered in the dispatch history
monitor_sent_recorded(sms_ok) ==
    /\ mt.pc = "send"
    /\ counts' = IF sms_ok THEN inc_count(counts, "sms", _today(now), TRUE)
                 ELSE counts
    /\ month' = IF sms_ok THEN inc_month_sms_count(month, _this_month(now), TRUE)
                ELSE month
    /\ fired' = IF sms_ok THEN [FiredOn(_today(now)) EXCEPT !.sms = Bump(@)]
                ELSE fired
    /\ ev' = [ThreadEvent("sent") EXCEPT !.smsTried = TRUE, !.sms = sms_ok]
    /\ mt' = [mt EXCEPT !.pc = "done"]
    /\ UNCHANGED <<settingsFile, win, inc, sync, cfg, nonint, status, streak, now,
                   last_on, last_off, stateFile, overtaken>>

\* lines 741-750 of _test_sms, with a valid number in the form
test_sms_check ==
    /\ win.pc = "idle"
    /\ LET pass == /\ ~(get_count(counts, "sms", _today(now)) >= cfg.sms_max_per_day)
                   /\ ~(get_month_sms_count(month, _this_month(now))
                           >= cfg.sms_max_per_month)
       IN  /\ win' = [win EXCEPT !.pc = IF pass THEN "send" ELSE "idle"]
           /\ ev' = [NoEvent EXCEPT !.op = "test_sms_check", !.smsTried = pass]
    /\ UNCHANGED <<settingsFile, inc, sync, cfg, nonint, status, streak, now, counts,
                   month, last_on, last_off, stateFile, mt, fired, overtaken>>

\* lines 752-767: _send_sms_twilio returns
test_sms_sent(sms_ok) ==
    /\ win.pc = "send"
    /\ counts' = IF sms_ok THEN inc_count(counts, "sms", _today(now), TRUE)
                 ELSE counts
    /\ month' = IF sms_ok THEN inc_month_sms_count(month, _this_month(now), TRUE)
                ELSE month
    /\ fired' = IF sms_ok THEN [FiredOn(_today(now)) EXCEPT !.sms = Bump(@)]
                ELSE fired
    /\ win' = [win EXCEPT !.pc = "idle"]
    /\ ev' = [NoEvent EXCEPT !.op = "test_sms", !.smsTried = TRUE, !.sms = sms_ok]
    /\ UNCHANGED <<settingsFile, inc, sync, cfg, nonint, status, streak, now,
                   last_on, last_off, stateFile, mt, overtaken>>

InitSms ==
    /\ cfg = [CfgEdited EXCEPT !.sms_max_per_day = 1, !.sms_max_per_month = 1]
    /\ nonint = {}
    /\ settingsFile = Stored(cfg)
    /\ Started

NextSms ==
    \/ MonitorStep
    \/ \E sms_ok \in BOOLEAN : monitor_sent_recorded(sms_ok)
    \/ MenuStep
    \/ test_sms_check
    \/ \E sms_ok \in BOOLEAN : test_sms_sent(sms_ok)

SpecSms == InitSms /\ [][NextSms]_vars
----------------------------------------------------------------------------
(* Properties.  A step's inputs and outputs are read from ev', the state   *)
(* it started in from the unprimed variables.                              *)

\* the desktop reminders whose notify call returned in the step
OnFired  == ev'.op = "tick" /\ ev'.on /\ ev'.raised = "none"
OffFired == ev'.op = "tick" /\ ev'.off /\ ev'.raised = "none"

\* C1: the conditions the "Still working?" reminder is emitted under
C1_Conditions ==
    /\ status = "On"
    /\ cfg.enable_clock_out_idle_reminder
    /\ ev'.idle >= cfg.on_idle_threshold_min * 60
    /\ Hour(now) >= Max(0, Min(23, cfg.on_idle_after_hour))
    /\ get_count(counts, "on", _today(now)) < cfg.max_clock_out_per_day
    /\ now - _load_epoch_file(last_on) >= cfg.on_idle_prompt_cooldown_min * 60

\* C1: in a tick on an enabled weekday "Still working?" is emitted if and
\* only if the clock is On, the reminder is enabled, the idle time has
\* reached the threshold, the hour has reached on_idle_after_hour, the day's
\* 'on' count is below max_clock_out_per_day and the cooldown has elapsed;
\* when the call succeeds the 'on' count of the day is one higher and the
\* 'on' last-fired timestamp is the time of the tick.
C1_ClockOutReminder ==
    [][(ev'.op = "tick" /\ is_notification_day_enabled(cfg, now)) =>
          /\ ev'.on <=> C1_Conditions
          /\ OnFired =>
                /\ get_count(counts', "on", _today(now))
                      = get_count(counts, "on", _today(now)) + 1
                /\ _load_epoch_file(last_on') = now]_vars

\* C2: the conditions an SMS is sent under
C2_Conditions ==
    /\ status = "On"
    /\ cfg.enable_sms_clock_out_reminder
    /\ is_notification_day_enabled(cfg, now)
    /\ IsE164(strip(cfg.sms_phone_e164))
    /\ ev'.idle >= cfg.sms_idle_threshold_min * 60
    /\ is_in_hour_window(cfg.sms_window_start_hour, cfg.sms_window_end_hour,
                         Hour(now))
    /\ get_count(counts, "sms", _today(now)) < cfg.sms_max_per_day
    /\ get_month_sms_count(month, _this_month(now)) < cfg.sms_max_per_month

\* C2: in a tick (none of whose writes fails) an SMS is sent only when the
\* clock is On, the SMS reminder is enabled, the weekday is enabled, the
\* phone number is a valid E.164 number, the idle time has reached the SMS
\* threshold, the hour is inside the window and both SMS counts are below
\* their caps; and when all of these hold the send is attempted.
C2_SmsRule ==
    [][(ev'.op = "tick" /\ ~ev'.lost) =>
          /\ ev'.sms => C2_Conditions
          /\ C2_Conditions => ev'.smsTried]_vars

\* C3: the conditions the "Forgot to clock in?" reminder is emitted under;
\* a cutoff hour below 1 counts as 1
C3_Conditions ==
    /\ cfg.enable_clock_in_reminder
    /\ is_notification_day_enabled(cfg, now)
    /\ streak' >= cfg.active_threshold_off_min * 60
    /\ \/ cfg.clock_in_cutoff_hour >= 24
       \/ Hour(now) < Max(1, cfg.clock_in_cutoff_hour)
    /\ get_count(counts, "off", _today(now)) < cfg.max_clock_in_per_day
    /\ now - _load_epoch_file(last_off) >= cfg.off_prompt_cooldown_min * 60

\* C3: with the clock Off, "Forgot to clock in?" is emitted in a tick if and
\* only if the reminder and the weekday are enabled, the streak after the
\* tick's update has reached the threshold, the hour is before the cutoff,
\* the day's 'off' count is below max_clock_in_per_day and the cooldown has
\* elapsed; when the call succeeds the 'off' count is one higher and the
\* 'off' last-fired timestamp is the time of the tick.
C3_ClockInReminder ==
    [][(ev'.op = "tick" /\ status = "Off") =>
          /\ ev'.off <=> C3_Conditions
          /\ OffFired =>
                /\ get_count(counts', "off", _today(now))
                      = get_count(counts, "off", _today(now)) + 1
                /\ _load_epoch_file(last_off') = now]_vars

\* C4: once the day counter of a kind has reached the kind's per-day
\* maximum no reminder of that kind fires in a tick of that day, and the
\* number of reminders of a kind the monitor has fired in one day never
\* exceeds the kind's per-day maximum.
C4_DailyCap ==
    [][ev'.op = "tick" =>
          /\ get_count(counts, "on", _today(now))
                >= Max(0, cfg.max_clock_out_per_day) => ~OnFired
          /\ get_count(counts, "off", _today(now))
                >= Max(0, cfg.max_clock_in_per_day) => ~OffFired
          /\ get_count(counts, "sms", _today(now))
                >= Max(0, cfg.sms_max_per_day) => ~ev'.sms
          /\ fired'.on <= Max(0, cfg.max_clock_out_per_day)
          /\ fired'.off <= Max(0, cfg.max_clock_in_per_day)
          /\ fired'.sms <= Max(0, cfg.sms_max_per_day)]_vars

\* C5: an SMS is sent only when the day's sms count is below
\* sms_max_per_day and the month's sms count is below sms_max_per_month;
\* inside one month the month's count never goes down, whatever happens to
\* the day's count, and a new day starts with the day's count at zero; so
\* once the month's count has reached its cap no SMS is sent on any later
\* day of that month.
C5_SmsDualCap ==
    [][/\ (ev'.op \in {"tick", "test_sms"} /\ ev'.sms) =>
             /\ get_count(counts, "sms", _today(now)) < cfg.sms_max_per_day
             /\ get_month_sms_count(month, _this_month(now))
                   < cfg.sms_max_per_month
       /\ _this_month(now') = _this_month(now) =>
             get_month_sms_count(month', _this_month(now'))
                >= get_month_sms_count(month, _this_month(now))
       /\ _today(now') # _today(now) =>
             get_count(counts', "sms", _today(now')) = 0]_vars

\* C5: on a later day of the month the SMS rule read both counters and was
\* held back by the monthly cap alone
C5_Witness ==
    /\ ev.op = "tick" /\ "month" \in ev.read /\ ~ev.smsTried
    /\ month.exists /\ counts.exists /\ counts.date # _today(now)
    /\ get_count(counts, "sms", _today(now)) < cfg.sms_max_per_day
    /\ get_month_sms_count(month, _this_month(now)) >= cfg.sms_max_per_month
    /\ cfg.sms_max_per_month > 0

\* the cooldown of a desktop reminder, in seconds
OnCooldown  == cfg.on_idle_prompt_cooldown_min * 60
OffCooldown == cfg.off_prompt_cooldown_min * 60

\* C6: after a desktop reminder of a kind has fired at time T, no reminder
\* of that kind fires at a tick before T + cooldown; at a tick at or after
\* T + cooldown at which the reminder's other conditions hold, it fires.
C6_Cooldown ==
    [][ev'.op = "tick" =>
          /\ (OnFired /\ fired.t_on # NoFile) => now - fired.t_on >= OnCooldown
          /\ (OffFired /\ fired.t_off # NoFile) => now - fired.t_off >= OffCooldown
          /\ ( /\ is_notification_day_enabled(cfg, now)
               /\ OnReads(cfg, status, ev'.idle, now)
               /\ get_count(counts, "on", _today(now)) < cfg.max_clock_out_per_day
               /\ fired.t_on # NoFile /\ now - fired.t_on >= OnCooldown )
             => ev'.on
          /\ ( /\ is_notification_day_enabled(cfg, now)
               /\ OffReads(cfg, status, streak', now)
               /\ get_count(counts, "off", _today(now)) < cfg.max_clock_in_per_day
               /\ fired.t_off # NoFile /\ now - fired.t_off >= OffCooldown )
             => ev'.off]_vars

\* C7: in a tick in which a desktop notification call raises, the day
\* counters, the month counter and the last-fired timestamps are left as
\* they were; in a step in which the SMS send returns false, the day's sms
\* count and the month counter are left as they were.
C7_FailedDispatch ==
    [][/\ (ev'.op = "tick" /\ ev'.raised # "none") =>
             UNCHANGED <<counts, month, last_on, last_off>>
       /\ (ev'.op \in {"tick", "test_sms"} /\ ev'.smsTried /\ ~ev'.sms) =>
             /\ get_count(counts', "sms", _today(now))
                   = get_count(counts, "sms", _today(now))
             /\ month' = month]_vars

\* C7: a "Still working?" call raised on a day on which reminders had been
\* dispatched before
C7_Witness ==
    /\ ev.op = "tick" /\ ev.raised = "on"
    /\ get_count(counts, "on", _today(now)) > 0
    /\ last_on # NoFile

\* a counter was written and the write went through
CountsSaved == (OnFired \/ OffFired \/ ev'.sms) /\ ~ev'.lost
MonthSaved  == ev'.sms /\ ~ev'.lost

C9_WeekdaySwitch ==
    [][(ev'.op = "tick" /\ ~cfg.notify_days[_weekday_key(now)]) =>
          /\ ~ev'.on /\ ~ev'.off /\ ~ev'.smsTried /\ ~ev'.sms
          /\ UNCHANGED <<counts, month, last_on, last_off, streak>>]_vars

\* C9: a tick on a disabled weekday, with an idle time above the activity
\* cutoff, has left a streak that had accrued before
C9_Witness ==
    /\ ev.op = "tick" /\ ev.skipped
    /\ ev.idle >= cfg.active_idle_cutoff_sec
    /\ streak > 0

\* the streak an accruing tick leaves
Accrued == IF ev'.idle < cfg.active_idle_cutoff_sec
           THEN streak + POLL_INTERVAL_SEC ELSE 0

\* C10 (as stated): in every tick with the clock Off the streak grows by
\* the poll interval when the idle time is below active_idle_cutoff_sec
\* and becomes zero otherwise; apart from that the streak changes only by
\* the reset that comes with a change of the clock state.
C10_AccrualWhileOff ==
    [][/\ (ev'.op = "tick" /\ status = "Off") => streak' = Accrued
       /\ ~(ev'.op = "tick" /\ status = "Off") =>
             \/ streak' = streak
             \/ status' # status /\ streak' = 0]_vars

\* C10 (amended): a tick updates the streak, as stated, exactly when the
\* clock is Off, the clock-in reminder is enabled and the weekday is
\* enabled; every other tick leaves it as it was.  Apart from ticks the
\* streak changes only in a clock-in or clock-out action, which sets it to
\* zero, also when the action leaves the clock state as it was.
C10_StreakAccrual ==
    [][/\ ev'.op = "tick" =>
             streak' = IF /\ status = "Off"
                          /\ cfg.enable_clock_in_reminder
                          /\ is_notification_day_enabled(cfg, now)
                       THEN Accrued ELSE streak
       /\ ev'.op = "set_status" =>
             /\ streak' = 0 \/ streak' = streak
             /\ ~ev'.lost => streak' = 0
       /\ ev'.op \notin {"tick", "set_status"} => streak' = streak]_vars

\* C10: with the clock Off and the clock-in reminder disabled a tick with
\* an idle time below the activity cutoff has left the streak at zero
C10_Witness ==
    /\ ev.op = "tick" /\ ~ev.skipped
    /\ status = "Off" /\ ~cfg.enable_clock_in_reminder
    /\ ev.idle < cfg.active_idle_cutoff_sec
    /\ streak = 0


----------------------------------------------------------------------------
(* C11: a clock-in or clock-out sets the streak to zero, and when it runs  *)
(* while a pass of the monitor is in progress the streak holds, from then  *)
(* to the end of that pass, nothing that was accumulated before the        *)
(* action: at most the one poll interval the pass itself adds.             *)

C11_UserActionWins ==
    overtaken => streak <= POLL_INTERVAL_SEC

----------------------------------------------------------------------------
(* C12: a pass that raises an exception, wherever it raises, is given up   *)
(* with nothing else done (the thread goes to the loop's time.sleep); the  *)
(* only way out of the sleep is the start of the next pass one poll        *)
(* interval later; and, the thread being scheduled, every pass that has    *)
(* ended is followed by the start of another (up to the MaxPasses passes   *)
(* of a run).                                                              *)

Abandoned == ev'.op \in {"raise", "on", "off"} /\ ev'.raised # "none"

C12_NextPass ==
    /\ [][Abandoned =>
            /\ mt'.pc = "done"
            /\ UNCHANGED <<status, streak, now, counts, month, last_on,
                           last_off>>]_vars
    /\ [][mt.pc = "done" /\ mt' # mt =>
            /\ mt'.pc = "start"
            /\ now' = now + POLL_INTERVAL_SEC]_vars
    /\ [](mt.pc = "done" /\ PassesMade < MaxPasses => <>(mt.pc = "start"))

\* a pass ended by the exception handler has been followed by the next pass
C12_Witness ==
    ev.op = "sleep" /\ ev.raised = "pass" /\ mt.pc = "start"

----------------------------------------------------------------------------
(* C13: a tick over settings in which a numeric setting is not a number    *)
(* does what the tick does over the same settings with that setting at its *)
(* default (cfg holds the default in its place): no exception, the same    *)
(* reminders and messages, the same streak, counters and timestamps.       *)

C13_DefaultInstead ==
    [][ev'.op = "tick" =>
          /\ ev'.raised # "int"
          /\ \E notify_ok \in BOOLEAN, sms_ok \in BOOLEAN, writable \in BOOLEAN :
                \E r \in {Pass(ev'.idle, notify_ok, sms_ok, writable)} :
                   /\ ev'.on = r.on /\ ev'.off = r.off /\ ev'.sms = r.sms
                   /\ ev'.raised = r.raised
                   /\ streak' = r.streak
                   /\ counts' = r.counts /\ month' = r.month
                   /\ last_on' = r.last_on /\ last_off' = r.last_off]_vars

----------------------------------------------------------------------------
(* C14: when the write of a counter or of a last-prompt time fails in a    *)
(* tick that dispatched, the value still advances for the ticks that       *)
(* follow: they read the day count (and, for an SMS, the month count) one  *)
(* higher and the time of this tick as the time of the last prompt.        *)

C14_ValueAdvances ==
    [][ev'.op = "tick" /\ ev'.lost =>
          LET today == _today(now)
          IN  /\ OnFired =>
                   /\ get_count(counts', "on", today)
                         = get_count(counts, "on", today) + 1
                   /\ _load_epoch_file(last_on') = now
              /\ OffFired =>
                   /\ get_count(counts', "off", today)
                         = get_count(counts, "off", today) + 1
                   /\ _load_epoch_file(last_off') = now
              /\ ev'.sms =>
                   /\ get_count(counts', "sms", today)
                         = get_count(counts, "sms", today) + 1
                   /\ get_month_sms_count(month', _this_month(now))
                         = get_month_sms_count(month, _this_month(now)) + 1]_vars

----------------------------------------------------------------------------
(* C15: the monitor, once it has called _send_sms_twilio, goes on to start *)
(* a later pass whether or not the call returns (while the run has passes  *)
(* left).                                                                  *)

C15_StallDoesNotBlock ==
    (mt.pc = "send" /\ PassesMade < MaxPasses) ~> (mt.pc = "start")

----------------------------------------------------------------------------
(* C16: in every state, what the SMS rule does in the next tick (whether   *)
(* the message is sent, and the sms day and month counts afterwards) is    *)
(* the same whatever the clock-out reminder's enable flag, thresholds,     *)
(* 'on' count and last-prompt time are and whether its icon.notify call    *)
(* succeeds or raises.                                                     *)

\* the passes that differ from the pass of the current state in the
\* clock-out reminder only
OnRuleVariants(idle, outcomes, sms_ok, writable) ==
    { MonitorPass(c, status, streak, now, cnt, month, lon, last_off, idle,
                  notify_ok, sms_ok, writable) :
        c \in {cfg,
               [cfg EXCEPT !.enable_clock_out_idle_reminder = ~@],
               [cfg EXCEPT !.on_idle_threshold_min = 0,
                           !.on_idle_after_hour = 0]},
        cnt \in {counts, [counts EXCEPT !.on = 0]},
        lon \in {last_on, NoFile},
        notify_ok \in outcomes }

SmsOutcome(r) ==
    <<r.smsTried, r.sms, get_count(r.counts, "sms", _today(now)),
      get_month_sms_count(r.month, _this_month(now))>>

SmsSameFor(outcomes) ==
    \A idle \in IdleValues, sms_ok \in BOOLEAN, writable \in BOOLEAN :
       \A r \in OnRuleVariants(idle, outcomes, sms_ok, writable) :
          SmsOutcome(r) = SmsOutcome(Pass(idle, TRUE, sms_ok, writable))

C16_SmsIndependent == SmsSameFor(BOOLEAN)

\* the same, over the ticks in which icon.notify does not raise
SmsSameUnlessRaised == SmsSameFor({TRUE})

\* a tick has dispatched the clock-out reminder and the SMS
BothFired == ev.op = "tick" /\ ev.on /\ ev.raised = "none" /\ ev.sms

----------------------------------------------------------------------------
(* C17: is_in_hour_window(s, e, h) for s in 0..23, e in 1..24, h in 0..23  *)
(* is true at every h when s = e, is s <= h < e when s < e, and is         *)
(* h >= s or h < e when s > e; with e = 24 every hour from s to 23 is in   *)
(* the window.                                                             *)

C17_HourWindow ==
    ev.op = "is_in_hour_window" =>
       LET s == ev.args[1]
           e == ev.args[2]
           h == ev.args[3]
       IN  /\ s = e => ev.result
           /\ s < e => (ev.result <=> (s <= h /\ h < e))
           /\ s > e => (ev.result <=> (h >= s \/ h < e))
           /\ (e = 24 /\ h >= s) => ev.result

\* a call with a window across midnight, at an hour after midnight inside it
C17_Witness ==
    /\ ev.op = "is_in_hour_window"
    /\ ev.args[1] > ev.args[2] /\ ev.args[3] < ev.args[2]
    /\ ev.result

----------------------------------------------------------------------------
(* C18: is_before_cutoff_local is true at every hour when the cut-off is   *)
(* 24 or more, is true at hour 0 only when the cut-off is below 1, and is  *)
(* hour < cut-off when the cut-off is from 1 to 23.                        *)

C18_CutoffGate ==
    ev.op = "is_before_cutoff_local" =>
       LET cutoff == ev.args[1]
           h      == ev.args[2]
       IN  /\ cutoff >= 24 => ev.result
           /\ cutoff < 1 => (ev.result <=> h = 0)
           /\ (1 <= cutoff /\ cutoff <= 23) => (ev.result <=> h < cutoff)

\* a call with a cut-off below 1, at hour 0
C18_Witness ==
    /\ ev.op = "is_before_cutoff_local"
    /\ ev.args[1] < 0 /\ ev.args[2] = 0
    /\ ev.result

----------------------------------------------------------------------------
(* C19: after a load_settings or a save_settings, whatever the document,   *)
(* the cached snapshot has the keys of DEFAULT_SETTINGS and no other, and  *)
(* holds the default for every key the document does not have.             *)

C19_SnapshotKeys ==
    ev.op \in {"load_settings", "save_settings"} =>
       /\ DOMAIN cfg = DOMAIN DEFAULT_SETTINGS
       /\ \A k \in DOMAIN DEFAULT_SETTINGS :
             k \notin DOMAIN ev.doc.obj => cfg[k] = DEFAULT_SETTINGS[k]

\* the same, for the calls that return
SnapshotKeysOnReturn ==
    (ev.op \in {"load_settings", "save_settings"} /\ ~LoadRaises(ev.doc)) =>
       /\ DOMAIN cfg = DOMAIN DEFAULT_SETTINGS
       /\ \A k \in DOMAIN DEFAULT_SETTINGS :
             k \notin DOMAIN Parsed(ev.doc) => cfg[k] = DEFAULT_SETTINGS[k]

----------------------------------------------------------------------------
(* C20: the clock state is On or Off at all times; it changes only in a    *)
(* clock-in or clock-out; and the program starts in the state most         *)
(* recently persisted, Off when none was: a clock-in or clock-out changes  *)
(* the state only together with the write that persists it, so that is     *)
(* the state the program had when it was ended.                            *)

C20_ClockState ==
    /\ [](status \in {"On", "Off"})
    /\ [][status' # status => ev'.op = "set_status"]_vars
    /\ [][ev'.op = "run_tray" => status' = status]_vars

\* the same, while every write of STATE_FILE is whole or does not happen
StateKeptUnlessCut ==
    [](stateFile # save_state("") => status = load_state(stateFile))

----------------------------------------------------------------------------
(* C21: _normalize_phone_e164 without the phonenumbers package returns     *)
(* the empty text or "+" and 8 to 15 digits; it returns "+" and all the    *)
(* digits of the input, in their order, exactly when the input begins      *)
(* with "+" and holds 8 to 15 digits, and the empty text otherwise.        *)

DigitsOf(raw) == SelectSeq(raw, IsDigit)

IsPlusDigits(p) ==
    /\ p # << >> /\ Head(p) = "+"
    /\ Len(p) - 1 >= 8 /\ Len(p) - 1 <= 15
    /\ \A i \in 2 .. Len(p) : p[i] \in Digits

C21_LeadingPlus ==
    ev.op = "_normalize_phone_e164" =>
       LET raw == ev.args[1]
       IN  /\ ev.result = << >> \/ IsPlusDigits(ev.result)
           /\ IF /\ raw # << >> /\ Head(raw) = "+"
                 /\ Len(DigitsOf(raw)) >= 8 /\ Len(DigitsOf(raw)) <= 15
              THEN ev.result = <<"+">> \o DigitsOf(raw)
              ELSE ev.result = << >>

\* the first of the input's characters that is a digit or "+" is a "+"
PlusBeforeDigits(raw) ==
    \E i \in 1 .. Len(raw) :
       /\ raw[i] = "+"
       /\ \A j \in 1 .. i - 1 : ~IsDigitOrPlus(raw[j])

(* C21, amended: ... exactly when the first character of the input that is *)
(* a digit or "+" is a "+" and the input holds 8 to 15 digits.             *)
C21_PlusBeforeDigits ==
    ev.op = "_normalize_phone_e164" =>
       LET raw == ev.args[1]
       IN  /\ ev.result = << >> \/ IsPlusDigits(ev.result)
           /\ IF /\ PlusBeforeDigits(raw)
                 /\ Len(DigitsOf(raw)) >= 8 /\ Len(DigitsOf(raw)) <= 15
              THEN ev.result = <<"+">> \o DigitsOf(raw)
              ELSE ev.result = << >>

\* a number written with a separator and an extension has been normalized
C21_Witness ==
    /\ ev.op = "_normalize_phone_e164"
    /\ \E i \in 1 .. Len(ev.args[1]) : ev.args[1][i] = "-"
    /\ \E i \in 1 .. Len(ev.args[1]) : ev.args[1][i] = "x"
    /\ ev.result # << >>
    /\ Len(ev.result) < Len(ev.args[1])

----------------------------------------------------------------------------
(* C24: under every interleaving of the monitor with the tray menu, a      *)
(* "Still working?" notification or a clock-out SMS is dispatched only     *)
(* while _current_status is "On", and a "Forgot to clock in?" notification *)
(* only while it is "Off".                                                 *)

C24_DispatchMatchesState ==
    [][/\ (ev'.op = "on" /\ ev'.on /\ ev'.raised = "none" => status = "On")
       /\ (ev'.op = "off" /\ ev'.off /\ ev'.raised = "none" => status = "Off")
       /\ (ev'.op = "sms" /\ ev'.smsTried => status = "On")]_vars

----------------------------------------------------------------------------
(* C29: when notify_days has no entry for today's weekday, the weekday     *)
(* gate of a pass uses that day's value of DEFAULT_SETTINGS: the pass goes *)
(* on from Monday to Friday and ends at the gate on Saturday and Sunday.   *)

C29_MissingDayDefault ==
    [][ev'.op = "tick" /\ _weekday_key(now) \notin DOMAIN cfg.notify_days
          => (ev'.skipped <=> ~DEFAULT_SETTINGS.notify_days[_weekday_key(now)])]_vars

----------------------------------------------------------------------------
(* C26: a clock-in or clock-out takes effect in memory also when the write *)
(* of STATE_FILE fails: after set_status(s), _current_status is s, the      *)
(* streak is zero, and the tray icon shows the clock state.                *)

C26_TakesEffect ==
    [][ev'.op = "set_status" =>
          status' = ev'.icon /\ streak' = 0]_vars

----------------------------------------------------------------------------
(* C27: when the form is saved with a numeric entry that is not an         *)
(* integer, the setting stored for that entry is its value in              *)
(* DEFAULT_SETTINGS (clock_in_cutoff_hour 15, sms_window_start_hour 12,    *)
(* sms_window_end_hour 22, on_idle_threshold_min 45, ...).                 *)

C27_MalformedStoresDefault ==
    [][ev'.op = "on_save_and_close" /\ ~ev'.error =>
          \A k \in NumericFields :
             ~ev'.form[k].ok => cfg'[k] = DEFAULT_SETTINGS[k]]_vars

----------------------------------------------------------------------------
(* C28: "Save & Close" with the SMS reminder enabled and a number that     *)
(* does not normalize is rejected: the error is shown, the cache, the      *)
(* settings file and the window stay as they are.  Every snapshot the form *)
(* stores with the SMS reminder enabled holds a normalized number.         *)

UnusableNumber(form) ==
    \/ strip(form.sms_phone_e164) = << >>
    \/ _normalize_phone_e164(strip(form.sms_phone_e164)) = << >>

C28_InvalidPhoneRejected ==
    [][ev'.op = "on_save_and_close" =>
          /\ ev'.form.enable_sms_clock_out_reminder /\ UnusableNumber(ev'.form)
                => /\ ev'.error
                   /\ UNCHANGED <<cfg, settingsFile, win>>
          /\ ~ev'.error /\ cfg'.enable_sms_clock_out_reminder
                => IsE164(cfg'.sms_phone_e164)]_vars

\* a form with the SMS box ticked and a number without "+" has been turned
\* down, the window is still there
C28_Witness ==
    /\ ev.op = "on_save_and_close"
    /\ ev.error
    /\ ev.form.enable_sms_clock_out_reminder
    /\ ev.form.sms_phone_e164 = PhoneBad
    /\ win.windows > 0 /\ win.flag

----------------------------------------------------------------------------
(* C30: there is never more than one settings window, whether Configure is *)
(* chosen while a window is open or twice before the thread of the first   *)
(* choice has started; after the window is closed Configure opens one      *)
(* again.                                                                  *)

C30_OneWindow ==
    win.windows <= 1

----------------------------------------------------------------------------
(* C25: every call of get_settings ends, whatever the cache holds (None    *)
(* included) and whatever another thread does in load_settings or          *)
(* save_settings; no thread waits for _settings_lock forever.              *)

C25_GetSettingsEnds ==
    /\ (sync.pc.caller = "called") ~> (sync.pc.caller = "idle")
    /\ (sync.pc.other = "store") ~> (sync.pc.other = "idle")

----------------------------------------------------------------------------
(* C23: inc_count(kind) raises the stored count of kind by exactly one and *)
(* leaves the counts of the other kinds as they are, also when the monitor *)
(* counts 'on' or 'off' while the settings window counts 'sms'; within one *)
(* day get_count(kind) never decreases.                                    *)

C23_NoLostUpdate ==
    [][/\ ev'.op = "inc_count" =>
             \A k \in Kinds :
                get_count(counts', k, _today(now'))
                   = get_count(counts, k, _today(now))
                        + (IF k = ev'.kind THEN 1 ELSE 0)
       /\ _today(now') = _today(now) =>
             \A k \in Kinds :
                get_count(counts', k, _today(now'))
                   >= get_count(counts, k, _today(now))]_vars

----------------------------------------------------------------------------
(* C22: however the monitor's SMS rule and the settings window's "Test     *)
(* SMS" interleave, the SMS sent in one day are at most sms_max_per_day    *)
(* and the SMS sent in one calendar month at most sms_max_per_month.       *)

C22_CapsUnderInterleaving ==
    /\ fired.sms <= Max(0, cfg.sms_max_per_day)
    /\ fired.sms <= Max(0, cfg.sms_max_per_month)
====
